---- MODULE Spec2Model ----
(***************************************************************************)
(* A model of arsim, a molecular-dynamics simulator (Lennard-Jones         *)
(* particles in a periodic cubic box, velocity-Verlet integration).        *)
(*                                                                         *)
(*   src/src/physics.rs         atomic_distances, lj_force, observables    *)
(*   src/src/integrator.rs      trait Integrator (simulate), Verlet        *)
(*   src/src/initialisation.rs  initial_positions, initial_velocities      *)
(*   src/src/main.rs            main, the configuration constants          *)
(*                                                                         *)
(* Float (f32) is modelled as a signed fixed-point number: the integer v   *)
(* stands for v / FracUnits.  Results are truncated toward zero, a finite  *)
(* result beyond MaxFloat overflows to an infinity, and the IEEE special   *)
(* values +inf, -inf and NaN are kept with their IEEE arithmetic.          *)
(***************************************************************************)
EXTENDS Integers, Sequences, FiniteSets, TLC

(***************************************************************************)
(* The Float type.                                                         *)
(***************************************************************************)
FracUnits == 16
MaxFloat == 32767
PosInf == 1000000
NegInf == -PosInf
NaN == 2 * PosInf

IsNaN(a) == a = NaN
IsInf(a) == a = PosInf \/ a = NegInf

Abs(a) == IF a < 0 THEN -a ELSE a
Sign(a) == IF a > 0 THEN 1 ELSE IF a < 0 THEN -1 ELSE 0

\* integer division truncating toward zero (b > 0)
TruncDiv(a, b) == IF a >= 0 THEN a \div b ELSE -((-a) \div b)

\* a finite exact result, stored: beyond the finite range it is an infinity
Overflow(x) == IF x > MaxFloat THEN PosInf ELSE IF x < -MaxFloat THEN NegInf ELSE x

\* the Float of a whole number
Fl(n) == n * FracUnits

\* the literal 0.5
Half == FracUnits \div 2

FNeg(a) == IF IsNaN(a) THEN NaN ELSE -a

FAdd(a, b) ==
    IF IsNaN(a) \/ IsNaN(b) THEN NaN
    ELSE IF IsInf(a) /\ IsInf(b) THEN (IF a = b THEN a ELSE NaN)
    ELSE IF IsInf(a) THEN a
    ELSE IF IsInf(b) THEN b
    ELSE Overflow(a + b)

FSub(a, b) == FAdd(a, FNeg(b))

FMul(a, b) ==
    IF IsNaN(a) \/ IsNaN(b) THEN NaN
    ELSE IF IsInf(a) \/ IsInf(b) THEN
        (IF a = 0 \/ b = 0 THEN NaN
         ELSE IF Sign(a) * Sign(b) > 0 THEN PosInf ELSE NegInf)
    ELSE Overflow(TruncDiv(a * b, FracUnits))

FDiv(a, b) ==
    IF IsNaN(a) \/ IsNaN(b) THEN NaN
    ELSE IF IsInf(a) THEN
        (IF IsInf(b) THEN NaN
         ELSE IF Sign(a) * (IF b < 0 THEN -1 ELSE 1) > 0 THEN PosInf ELSE NegInf)
    ELSE IF IsInf(b) THEN 0
    ELSE IF b = 0 THEN
        (IF a = 0 THEN NaN ELSE IF a > 0 THEN PosInf ELSE NegInf)
    ELSE Overflow(Sign(b) * TruncDiv(a * FracUnits, Abs(b)))

\* Rust's % on floats: the remainder of the division truncated toward zero,
\* with the sign of the dividend
FRem(a, b) ==
    IF IsNaN(a) \/ IsNaN(b) \/ IsInf(a) \/ b = 0 THEN NaN
    ELSE IF IsInf(b) THEN a
    ELSE IF a >= 0 THEN a % Abs(b) ELSE -((-a) % Abs(b))

RECURSIVE ISqrt(_, _, _)
\* the largest r in lo..hi with r * r <= n, by bisection (lo * lo <= n)
ISqrt(n, lo, hi) ==
    IF lo >= hi THEN lo
    ELSE LET mid == (lo + hi + 1) \div 2
         IN  IF mid * mid <= n THEN ISqrt(n, mid, hi) ELSE ISqrt(n, lo, mid - 1)

FSqrt(a) ==
    IF IsNaN(a) \/ a < 0 THEN NaN
    ELSE IF a = PosInf THEN PosInf
    ELSE ISqrt(a * FracUnits, 0, 1024)

RECURSIVE PowPos(_, _)
\* a^n for n >= 0 by repeated multiplication
PowPos(a, n) == IF n = 0 THEN Fl(1) ELSE FMul(PowPos(a, n - 1), a)

\* f32::powi: a negative exponent is the reciprocal of the positive power
FPowi(a, n) == IF n >= 0 THEN PowPos(a, n) ELSE FDiv(Fl(1), PowPos(a, -n))

(***************************************************************************)
(* Arrays.  A TwoDee of shape (N, 3) is a sequence of N rows of 3 Floats,  *)
(* a TwoDee of shape (N, N) a sequence of N rows of N Floats, a ThreeDee   *)
(* of shape (N, N, 3) a sequence of N rows of N triples.                   *)
(***************************************************************************)
Dims == 1..3

RECURSIVE SumRange(_, _, _)
\* the sum of s[lo..hi], by halves
SumRange(s, lo, hi) ==
    IF lo > hi THEN 0
    ELSE IF lo = hi THEN s[lo]
    ELSE LET mid == (lo + hi) \div 2
         IN  FAdd(SumRange(s, lo, mid), SumRange(s, mid + 1, hi))

\* ndarray's sum of the elements (zero for none)
SumSeq(s) == SumRange(s, 1, Len(s))

AnyNaN2(m) == \E i \in 1..Len(m) : \E j \in 1..Len(m[i]) : IsNaN(m[i][j])
AnyNaN3(m) == \E i \in 1..Len(m) : \E j \in 1..Len(m[i]) : \E d \in Dims : IsNaN(m[i][j][d])

(***************************************************************************)
(* physics.rs                                                              *)
(***************************************************************************)

\* one entry of one column's difference table: (raw + box_dim * 0.5) % box_dim
\* - box_dim * 0.5
Wrap(raw, box_dim) ==
    FSub(FRem(FAdd(raw, FMul(box_dim, Half)), box_dim), FMul(box_dim, Half))

\* dists[d][i][j] and relative_positions[i][j][d]
RelativePositions(positions, box_dim) ==
    [i \in 1..Len(positions) |-> [j \in 1..Len(positions) |-> [d \in Dims |->
        Wrap(FSub(positions[j][d], positions[i][d]), box_dim)]]]

Distances(rel) ==
    [i \in 1..Len(rel) |-> [j \in 1..Len(rel) |->
        IF i = j THEN PosInf
        ELSE FSqrt(FAdd(FAdd(FMul(rel[i][j][1], rel[i][j][1]),
                             FMul(rel[i][j][2], rel[i][j][2])),
                        FMul(rel[i][j][3], rel[i][j][3])))]]

\* atomic_distances: Ok((relative_positions, distances)), or a panic of one
\* of its assertions
atomic_distances(positions, box_dim) ==
    LET rel == RelativePositions(positions, box_dim)
        dist == Distances(rel)
    IN  IF AnyNaN3(rel) \/ AnyNaN2(dist)
        THEN [outcome |-> "panic", relative_positions |-> <<>>, distances |-> <<>>]
        ELSE [outcome |-> "Ok", relative_positions |-> rel, distances |-> dist]

ForceMagnitude(distances) ==
    [i \in 1..Len(distances) |-> [j \in 1..Len(distances) |->
        FSub(FMul(Fl(24), FPowi(distances[i][j], -7)),
             FMul(Fl(48), FPowi(distances[i][j], -13)))]]

ForceDirection(rel, distances) ==
    [i \in 1..Len(rel) |-> [j \in 1..Len(rel) |-> [d \in Dims |->
        FDiv(rel[i][j][d], distances[i][j])]]]

ForceMatrix(direction, magnitude) ==
    [i \in 1..Len(direction) |-> [j \in 1..Len(direction) |-> [d \in Dims |->
        FMul(direction[i][j][d], magnitude[i][j])]]]

\* as NetForce, summed over the second pair index instead
NetForceAxis1(force_matrix) ==
    [i \in 1..Len(force_matrix) |-> [d \in Dims |->
        FNeg(SumSeq([j \in 1..Len(force_matrix) |-> force_matrix[i][j][d]]))]]

\* -force_matrix.sum_axis(Axis(0)): the sum over the first pair index
NetForce(force_matrix) ==
    [j \in 1..Len(force_matrix) |-> [d \in Dims |->
        FNeg(SumSeq([i \in 1..Len(force_matrix) |-> force_matrix[i][j][d]]))]]

\* lj_force: (force_magnitude, net_force), or a panic of one of its assertions
lj_force(relative_positions, distances) ==
    LET magnitude == ForceMagnitude(distances)
        direction == ForceDirection(relative_positions, distances)
    IN  IF AnyNaN2(magnitude) \/ AnyNaN3(direction)
        THEN [outcome |-> "panic", force_magnitude |-> <<>>, net_force |-> <<>>]
        ELSE [outcome |-> "Ok", force_magnitude |-> magnitude,
              net_force |-> NetForce(ForceMatrix(direction, magnitude))]

kinetic_energy(velocities) ==
    FMul(Half, SumSeq([k \in 1..(3 * Len(velocities)) |->
        FPowi(velocities[((k - 1) \div 3) + 1][((k - 1) % 3) + 1], 2)]))

potential_energy(distances) ==
    FMul(Half, SumSeq([k \in 1..(Len(distances) * Len(distances)) |->
        LET d == distances[((k - 1) \div Len(distances)) + 1][((k - 1) % Len(distances)) + 1]
        IN  FMul(Fl(4), FSub(FPowi(d, -12), FPowi(d, -6)))]))

\* temperature; amount_of_particles >= 1 here
temperature(kinetic, amount_of_particles) ==
    FDiv(FMul(Fl(2), kinetic), FMul(Fl(3), Fl(amount_of_particles - 1)))

\* 0.5 * (distances * force_magnitudes).sum()  (integrator.rs 90)
Virial(distances, force_magnitudes) ==
    FMul(Half, SumSeq([k \in 1..(Len(distances) * Len(distances)) |->
        LET i == ((k - 1) \div Len(distances)) + 1
            j == ((k - 1) % Len(distances)) + 1
        IN  FMul(distances[i][j], force_magnitudes[i][j])]))

(***************************************************************************)
(* integrator.rs                                                           *)
(***************************************************************************)
FieldAdd(a, b) == [i \in 1..Len(a) |-> [d \in Dims |-> FAdd(a[i][d], b[i][d])]]
FieldScale(a, c) == [i \in 1..Len(a) |-> [d \in Dims |-> FMul(a[i][d], c)]]
ZeroField(n) == [i \in 1..n |-> [d \in Dims |-> 0]]

\* as TimestepCount, with the end of the run counted as a step of its own
TimestepCountInclusive(max_time, time_step_size) ==
    LET q == FDiv(max_time, time_step_size)
    IN  IF IsNaN(q) \/ q < 0 THEN 0 ELSE TruncDiv(q, FracUnits) + 1

\* (max_time / time_step_size) as usize: the cast drops the fraction, takes
\* NaN and negative values to 0 and saturates
TimestepCount(max_time, time_step_size) ==
    LET q == FDiv(max_time, time_step_size)
    IN  IF IsNaN(q) \/ q < 0 THEN 0 ELSE TruncDiv(q, FracUnits)

\* Verlet::integration_step (VerletCUDA's is the same text)
integration_step(positions, velocities, forces, time_step_size, box_dim) ==
    LET new_positions ==
            FieldAdd(FieldAdd(positions, FieldScale(velocities, time_step_size)),
                     FieldScale(FieldScale(FieldScale(forces, time_step_size),
                                           time_step_size), Half))
        atomic == atomic_distances(new_positions, box_dim)
        lj == lj_force(atomic.relative_positions, atomic.distances)
        dvel == FieldScale(FieldScale(FieldAdd(forces, lj.net_force), time_step_size), Half)
    IN  IF atomic.outcome # "Ok" \/ lj.outcome # "Ok"
        THEN [outcome |-> "panic"]
        ELSE [outcome |-> "Ok",
              positions |-> new_positions,
              velocities |-> FieldAdd(velocities, dvel),
              forces |-> lj.net_force,
              force_magnitudes |-> lj.force_magnitude,
              distances |-> atomic.distances]

\* the argument simulate() hands to kinetic_energy (integrator.rs 88)
KineticEnergyArgument(cur_positions, cur_velocities) == cur_positions

(***************************************************************************)
(* initialisation.rs                                                       *)
(***************************************************************************)
RECURSIVE RoundCbrtQuarter(_, _)
\* round(cbrt(n / 4)), from k upward: the k with (2k-1)^3 <= 2n < (2k+1)^3
RoundCbrtQuarter(n, k) ==
    IF 2 * n < (2 * k + 1) * (2 * k + 1) * (2 * k + 1) THEN k
    ELSE RoundCbrtQuarter(n, k + 1)

\* as Layers, without the division by the 4 particles of a lattice cell
LayersOfCount(amount_of_particles) == RoundCbrtQuarter(4 * amount_of_particles, 0)

\* (amount_of_particles as Float / 4.0).powf(1.0 / 3.0).round() as usize
Layers(amount_of_particles) == RoundCbrtQuarter(amount_of_particles, 0)

\* the loops over x, y, z in 0..layers * 2: the points of even coordinate sum,
\* in the order of the loops
LatticePoints(layers) ==
    LET side == 2 * layers
        all == [k \in 1..(side * side * side) |->
                   <<(k - 1) \div (side * side), ((k - 1) \div side) % side, (k - 1) % side>>]
    IN  SelectSeq(all, LAMBDA p : (p[1] + p[2] + p[3]) % 2 = 0)

\* initial_positions: Ok(positions), Err of from_shape_vec, or a panic of the
\* assertion
initial_positions(amount_of_particles, box_size) ==
    LET layers == Layers(amount_of_particles)
        lattice_constant == FDiv(box_size, Fl(layers))
        corner_offset == FDiv(lattice_constant, Fl(4))
        points == LatticePoints(layers)
    IN  IF layers * layers * layers * 4 # amount_of_particles
        THEN [outcome |-> "panic", positions |-> <<>>]
        ELSE IF Len(points) # amount_of_particles
        THEN [outcome |-> "Err", positions |-> <<>>]
        ELSE [outcome |-> "Ok",
              positions |-> [i \in 1..Len(points) |-> [d \in Dims |->
                  FAdd(FMul(Fl(points[i][d]), FDiv(lattice_constant, Fl(2))),
                       corner_offset)]]]

\* mean_axis(Axis(0)), one dimension of it
MeanAxis0(draws, d) ==
    FDiv(SumSeq([i \in 1..Len(draws) |-> draws[i][d]]), Fl(Len(draws)))

\* velocities -= mean over the particles, per dimension
SubtractMean(draws) ==
    LET mean == <<MeanAxis0(draws, 1), MeanAxis0(draws, 2), MeanAxis0(draws, 3)>>
    IN  [i \in 1..Len(draws) |-> [d \in Dims |-> FSub(draws[i][d], mean[d])]]

\* initial_velocities on the draws the generator gave; mean_axis is None for
\* no particles and the expect panics
initial_velocities(draws) ==
    IF Len(draws) = 0 THEN [outcome |-> "panic", velocities |-> <<>>]
    ELSE [outcome |-> "Ok", velocities |-> SubtractMean(draws)]

(***************************************************************************)
(* main.rs                                                                 *)
(***************************************************************************)
BOX_SIZE == 8
NUMBER_OF_PARTICLES == 500

(***************************************************************************)
(* State.                                                                  *)
(***************************************************************************)
VARIABLES
    ph_pc,              \* where the physics kernels are: start, distances, forces, panicked
    ph_positions,       \* the position field given to atomic_distances
    ph_box_dim,         \* the box side given to atomic_distances
    ph_atomic,          \* what atomic_distances returned
    ph_lj               \* what lj_force returned

VARIABLES
    pc,                 \* where simulate() is: idle, call, allocated, record, step,
                        \* returned, panicked
    integrator,         \* the implementor of Integrator: Verlet or VerletCUDA
    args,               \* simulate()'s arguments
    timesteps,
    positions,          \* the history of positions, one (N, 3) field per time slot
    velocities,         \* the history of velocities
    kinetic_energies,
    potential_energies,
    virials,
    temperatures,
    current_positions,
    current_velocities,
    distances,
    force_magnitudes,
    forces,
    step,               \* the loop variable
    trace               \* what has been called and written so far, in order

VARIABLES
    caller,             \* who calls initial_positions: main or another caller
    in_pc,              \* idle, call, done
    amount_of_particles,
    box_size,
    in_result,          \* what initial_positions returned
    main_pc,            \* where main is: idle, start, positions, velocities, simulate, failed
    main_velocities     \* what initial_velocities returned to main

vars_physics == <<ph_pc, ph_positions, ph_box_dim, ph_atomic, ph_lj>>

vars_simulate == <<pc, integrator, args, timesteps, positions, velocities,
                   kinetic_energies, potential_energies, virials, temperatures,
                   current_positions, current_velocities, distances, force_magnitudes,
                   forces, step, trace>>

vars_initialisation == <<caller, in_pc, amount_of_particles, box_size, in_result,
                         main_pc, main_velocities>>

vars == <<vars_physics, vars_simulate, vars_initialisation>>

(***************************************************************************)
(* Bounds of the model.                                                    *)
(***************************************************************************)
MaxParticles == 2
MaxCoord == 2
MaxBox == 3
MaxTime == 4
MaxCount == 33

Coords == {Fl(c) : c \in 0..MaxCoord}
\* position fields: the first particle anywhere on the grid, the others along
\* its x axis
Fields(n) ==
    {[i \in 1..n |-> IF i = 1 THEN r ELSE <<c[i], 0, 0>>] :
        r \in [Dims -> Coords], c \in [2..n -> Coords]}

NoResult == [outcome |-> "none"]

(***************************************************************************)
(* The physics kernels on their own: atomic_distances, then lj_force on    *)
(* what it returned.                                                       *)
(***************************************************************************)
IdlePhysics ==
    /\ ph_pc = "idle"
    /\ ph_positions = <<>>
    /\ ph_box_dim = 0
    /\ ph_atomic = NoResult
    /\ ph_lj = NoResult

IdleSimulate ==
    /\ pc = "idle"
    /\ integrator = "Verlet"
    /\ args = <<>>
    /\ timesteps = 0
    /\ positions = <<>>
    /\ velocities = <<>>
    /\ kinetic_energies = <<>>
    /\ potential_energies = <<>>
    /\ virials = <<>>
    /\ temperatures = <<>>
    /\ current_positions = <<>>
    /\ current_velocities = <<>>
    /\ distances = <<>>
    /\ force_magnitudes = <<>>
    /\ forces = <<>>
    /\ step = 0
    /\ trace = <<>>

IdleInitialisation ==
    /\ caller = "none"
    /\ in_pc = "idle"
    /\ amount_of_particles = 0
    /\ box_size = 0
    /\ in_result = NoResult
    /\ main_pc = "idle"
    /\ main_velocities = NoResult

InitPhysics ==
    /\ IdleSimulate
    /\ IdleInitialisation
    /\ ph_pc = "start"
    /\ \E n \in 1..MaxParticles : ph_positions \in Fields(n)
    /\ ph_box_dim \in {Fl(b) : b \in 0..MaxBox}
    /\ ph_atomic = NoResult
    /\ ph_lj = NoResult

AtomicDistances ==
    /\ ph_pc = "start"
    /\ ph_atomic' = atomic_distances(ph_positions, ph_box_dim)
    /\ ph_pc' = IF ph_atomic'.outcome = "Ok" THEN "distances" ELSE "panicked"
    /\ UNCHANGED <<ph_positions, ph_box_dim, ph_lj, vars_simulate, vars_initialisation>>

LjForce ==
    /\ ph_pc = "distances"
    /\ ph_lj' = lj_force(ph_atomic.relative_positions, ph_atomic.distances)
    /\ ph_pc' = IF ph_lj'.outcome = "Ok" THEN "forces" ELSE "panicked"
    /\ UNCHANGED <<ph_positions, ph_box_dim, ph_atomic, vars_simulate, vars_initialisation>>

NextPhysics == AtomicDistances \/ LjForce

SpecPhysics == InitPhysics /\ [][NextPhysics]_vars

\* physics.rs, test_relative_positions
TestRelativePositions ==
    LET r == atomic_distances(<<<<Fl(1), Fl(2), Fl(3)>>, <<Fl(0), Fl(2), Fl(2)>>>>, Fl(5))
    IN  /\ r.outcome = "Ok"
        /\ r.relative_positions =
             << << <<0, 0, 0>>, <<Fl(-1), 0, Fl(-1)>> >>,
                << <<Fl(1), 0, Fl(1)>>, <<0, 0, 0>> >> >>
        /\ r.distances = << <<PosInf, FSqrt(Fl(2))>>, <<FSqrt(Fl(2)), PosInf>> >>

(***************************************************************************)
(* Integrator::simulate, called on a Verlet or a VerletCUDA.               *)
(***************************************************************************)
SimCoords == {0, Fl(1)}
\* the sites of one cell of the lattice initial_positions builds (i <= 4)
Site(i) == LatticePoints(1)[i]
\* position fields: the first particle anywhere on the unit cube's corners, the
\* others on their lattice sites
PositionFields(n) ==
    {[i \in 1..n |-> IF i = 1 THEN r ELSE [d \in Dims |-> Fl(Site(i)[d])]] :
        r \in [Dims -> SimCoords]}
VelocityRows == {<<0, 0, 0>>, <<Half, 0, 0>>, <<0, -Half, Fl(1)>>}
\* velocity fields of zero or alternating rows
VelocityFields(n) ==
    {[i \in 1..n |-> IF i % 2 = 1 THEN r ELSE [d \in Dims |-> FNeg(r[d])]] : r \in VelocityRows}

InitSimulate ==
    /\ IdlePhysics
    /\ IdleInitialisation
    /\ pc = "call"
    /\ integrator \in {"Verlet", "VerletCUDA"}
    /\ \E n \in 1..MaxParticles, m \in 1..MaxParticles :
         \E p \in PositionFields(n), v \in VelocityFields(m) :
           \E dt \in {Half, Fl(1)}, mt \in {k * Half : k \in 1..MaxTime} :
             args = [initial_positions |-> p, initial_velocities |-> v,
                     time_step_size |-> dt, max_time |-> mt, box_dim |-> Fl(MaxBox)]
    /\ timesteps = 0
    /\ positions = <<>>
    /\ velocities = <<>>
    /\ kinetic_energies = <<>>
    /\ potential_energies = <<>>
    /\ virials = <<>>
    /\ temperatures = <<>>
    /\ current_positions = <<>>
    /\ current_velocities = <<>>
    /\ distances = <<>>
    /\ force_magnitudes = <<>>
    /\ forces = <<>>
    /\ step = 0
    /\ trace = <<>>

\* integrator.rs 45-65: the two assertions, then the buffers
CheckAndAllocate ==
    /\ pc = "call"
    /\ IF /\ Len(args.initial_positions) = Len(args.initial_velocities)
          /\ args.time_step_size < args.max_time
       THEN LET n == Len(args.initial_positions)
                t == TimestepCount(args.max_time, args.time_step_size)
            IN  /\ pc' = "allocated"
                /\ timesteps' = t
                /\ positions' = [s \in 1..t |-> ZeroField(n)]
                /\ velocities' = [s \in 1..t |-> ZeroField(n)]
                /\ kinetic_energies' = [s \in 1..t |-> 0]
                /\ potential_energies' = [s \in 1..t |-> 0]
                /\ virials' = [s \in 1..t |-> 0]
                /\ temperatures' = [s \in 1..t |-> 0]
       ELSE /\ pc' = "panicked"
            /\ UNCHANGED <<timesteps, positions, velocities, kinetic_energies,
                           potential_energies, virials, temperatures>>
    /\ UNCHANGED <<integrator, args, current_positions, current_velocities, distances,
                   force_magnitudes, forces, step, trace, vars_physics, vars_initialisation>>

\* integrator.rs 67-78: initialisation(), the first distances and forces
Prepare ==
    /\ pc = "allocated"
    /\ trace' = Append(trace, [call |-> "initialisation"])
    /\ LET atomic == atomic_distances(args.initial_positions, args.box_dim)
           lj == lj_force(atomic.relative_positions, atomic.distances)
       IN  IF integrator = "VerletCUDA" \/ atomic.outcome # "Ok" \/ lj.outcome # "Ok"
           THEN /\ pc' = "panicked"
                /\ UNCHANGED <<current_positions, current_velocities, distances,
                               force_magnitudes, forces>>
           ELSE /\ pc' = "record"
                /\ current_positions' = args.initial_positions
                /\ current_velocities' = args.initial_velocities
                /\ distances' = atomic.distances
                /\ force_magnitudes' = lj.force_magnitude
                /\ forces' = lj.net_force
    /\ UNCHANGED <<integrator, args, timesteps, positions, velocities, kinetic_energies,
                   potential_energies, virials, temperatures, step, vars_physics, vars_initialisation>>

\* integrator.rs 79-91: one slot of every history
Record ==
    /\ pc = "record"
    /\ step < timesteps
    /\ LET kinetic == kinetic_energy(KineticEnergyArgument(current_positions,
                                                            current_velocities))
       IN  /\ positions' = [positions EXCEPT ![step + 1] = current_positions]
           /\ velocities' = [velocities EXCEPT ![step + 1] = current_velocities]
           /\ kinetic_energies' = [kinetic_energies EXCEPT ![step + 1] = kinetic]
           /\ potential_energies' =
                [potential_energies EXCEPT ![step + 1] = potential_energy(distances)]
           /\ virials' = [virials EXCEPT ![step + 1] = Virial(distances, force_magnitudes)]
           /\ temperatures' =
                [temperatures EXCEPT ![step + 1] =
                    temperature(kinetic, Len(args.initial_positions))]
    /\ trace' = Append(trace, [call |-> "write", slot |-> step])
    /\ pc' = "step"
    /\ UNCHANGED <<integrator, args, timesteps, current_positions, current_velocities,
                   distances, force_magnitudes, forces, step, vars_physics, vars_initialisation>>

\* integrator.rs 94-113: integration_step, its result made the current state
Step ==
    /\ pc = "step"
    /\ LET r == integration_step(current_positions, current_velocities, forces,
                                 args.time_step_size, args.box_dim)
       IN  IF r.outcome = "Ok"
           THEN /\ pc' = "record"
                /\ trace' = Append(trace, [call |-> "integration_step",
                                           positions |-> r.positions,
                                           velocities |-> r.velocities])
                /\ current_positions' = r.positions
                /\ current_velocities' = r.velocities
                /\ forces' = r.forces
                /\ force_magnitudes' = r.force_magnitudes
                /\ distances' = r.distances
                /\ step' = step + 1
           ELSE /\ pc' = "panicked"
                /\ trace' = Append(trace, [call |-> "integration_step"])
                /\ UNCHANGED <<current_positions, current_velocities, forces,
                               force_magnitudes, distances, step>>
    /\ UNCHANGED <<integrator, args, timesteps, positions, velocities, kinetic_energies,
                   potential_energies, virials, temperatures, vars_physics, vars_initialisation>>

\* integrator.rs 115-122: Ok(IntegrationResult {...})
Return ==
    /\ pc = "record"
    /\ step = timesteps
    /\ pc' = "returned"
    /\ UNCHANGED <<integrator, args, timesteps, positions, velocities, kinetic_energies,
                   potential_energies, virials, temperatures, current_positions,
                   current_velocities, distances, force_magnitudes, forces, step, trace,
                   vars_physics, vars_initialisation>>

Next == CheckAndAllocate \/ Prepare \/ Record \/ Step \/ Return

Spec == InitSimulate /\ [][Next]_vars

(***************************************************************************)
(* initial_positions called on its own, and main up to its call of         *)
(* simulate().                                                             *)
(***************************************************************************)
InitInitialisation ==
    /\ IdlePhysics
    /\ IdleSimulate
    /\ in_pc = "call"
    /\ in_result = NoResult
    /\ main_velocities = NoResult
    /\ \/ /\ caller = "main"
          /\ main_pc = "start"
          /\ amount_of_particles = NUMBER_OF_PARTICLES
          /\ box_size = Fl(BOX_SIZE)
       \/ /\ caller = "other"
          /\ main_pc = "idle"
          /\ amount_of_particles \in 0..MaxCount
          /\ box_size \in {Fl(b) : b \in 1..MaxBox}

\* initial_positions; in main (main.rs 22) the ? hands an Err on
InitialPositions ==
    /\ in_pc = "call"
    /\ in_result' = initial_positions(amount_of_particles, box_size)
    /\ in_pc' = "done"
    /\ main_pc' = IF caller # "main" THEN main_pc
                  ELSE IF in_result'.outcome = "Ok" THEN "positions" ELSE "failed"
    /\ UNCHANGED <<caller, amount_of_particles, box_size, main_velocities,
                   vars_physics, vars_simulate>>

\* main.rs 23: initial_velocities, on some draws of the seeded generator
MainVelocities ==
    /\ main_pc = "positions"
    /\ \E draws \in VelocityFields(amount_of_particles) :
         main_velocities' = initial_velocities(draws)
    /\ main_pc' = IF main_velocities'.outcome = "Ok" THEN "velocities" ELSE "failed"
    /\ UNCHANGED <<caller, in_pc, amount_of_particles, box_size, in_result,
                   vars_physics, vars_simulate>>

\* main.rs 25-26: simulate() is called on a Verlet
MainSimulate ==
    /\ main_pc = "velocities"
    /\ main_pc' = "simulate"
    /\ UNCHANGED <<caller, in_pc, amount_of_particles, box_size, in_result,
                   main_velocities, vars_physics, vars_simulate>>

NextInitialisation == InitialPositions \/ MainVelocities \/ MainSimulate

SpecInitialisation == InitInitialisation /\ [][NextInitialisation]_vars

(***************************************************************************)
(* Properties of the physics kernels (under SpecPhysics).                  *)
(***************************************************************************)
Particles == 1..Len(ph_positions)
HalfBox == FMul(ph_box_dim, Half)
AtomicReturned == ph_atomic.outcome = "Ok" /\ ph_box_dim > 0
InsideBox == \A i \in Particles, d \in Dims : 0 <= ph_positions[i][d] /\ ph_positions[i][d] < ph_box_dim
DistinctParticles == \A i \in Particles, j \in Particles : i # j => ph_positions[i] # ph_positions[j]
RawDifference(i, j, d) == ph_positions[j][d] - ph_positions[i][d]
Displacement(i, j, d) == ph_atomic.relative_positions[i][j][d]
PairForce(i, j, d) ==
    FMul(FDiv(Displacement(i, j, d), ph_atomic.distances[i][j]),
         FSub(FMul(Fl(24), FPowi(ph_atomic.distances[i][j], -7)),
              FMul(Fl(48), FPowi(ph_atomic.distances[i][j], -13))))

RECURSIVE SumOverFirst(_, _, _)
\* PairForce(1, j, d) + ... + PairForce(n, j, d)
SumOverFirst(n, j, d) ==
    IF n = 0 THEN 0 ELSE FAdd(SumOverFirst(n - 1, j, d), PairForce(n, j, d))

RECURSIVE SumOverSecond(_, _, _)
\* PairForce(i, 1, d) + ... + PairForce(i, n, d)
SumOverSecond(i, n, d) ==
    IF n = 0 THEN 0 ELSE FAdd(SumOverSecond(i, n - 1, d), PairForce(i, n, d))

\* C3: whenever atomic_distances returns for a box_size > 0, the distance
\* matrix has +infinity on its diagonal and, off the diagonal, is symmetric
\* and strictly positive.  Stated for the least demanding fields, particles
\* at different points inside the box.
C3_DistanceMatrix ==
    (AtomicReturned /\ InsideBox /\ DistinctParticles) =>
        \A i \in Particles, j \in Particles :
            IF i = j THEN ph_atomic.distances[i][j] = PosInf
            ELSE /\ ph_atomic.distances[i][j] = ph_atomic.distances[j][i]
                 /\ ph_atomic.distances[i][j] > 0

\* C3's case: particles at different points inside the box, one raw
\* difference below -box_size/2, and two different distances for the pair
C3_Witness ==
    /\ AtomicReturned /\ InsideBox /\ DistinctParticles
    /\ \E i \in Particles, j \in Particles, d \in Dims :
          /\ RawDifference(i, j, d) < -HalfBox
          /\ ph_atomic.distances[i][j] # ph_atomic.distances[j][i]

\* C4: every displacement component is the minimum image of the raw
\* difference pos[j][d] - pos[i][d]: it differs from it by a whole number of
\* boxes and lies in [-box_size/2, box_size/2).  Stated for particles inside
\* the box.
C4_MinimumImage ==
    (AtomicReturned /\ InsideBox) =>
        \A i \in Particles, j \in Particles, d \in Dims :
            /\ (Displacement(i, j, d) - RawDifference(i, j, d)) % ph_box_dim = 0
            /\ -HalfBox <= Displacement(i, j, d)
            /\ Displacement(i, j, d) < HalfBox

\* C4's case: a raw difference below -box_size/2 comes back unwrapped
C4_Witness ==
    /\ AtomicReturned /\ InsideBox
    /\ \E i \in Particles, j \in Particles, d \in Dims :
          /\ RawDifference(i, j, d) < -HalfBox
          /\ Displacement(i, j, d) = RawDifference(i, j, d)

\* C5: the displacement field is antisymmetric,
\* displacement[i][j][d] = -displacement[j][i][d].  Stated for particles
\* inside the box and raw differences other than +-box_size/2 (there the two
\* images are equally near, and the wrapping formula itself gives -box_size/2
\* both ways).
C5_Antisymmetric ==
    (AtomicReturned /\ InsideBox) =>
        \A i \in Particles, j \in Particles, d \in Dims :
            Abs(RawDifference(i, j, d)) # HalfBox =>
                Displacement(i, j, d) = -Displacement(j, i, d)

\* C5's case: a raw difference beyond box_size/2 whose two displacements are
\* not opposite
C5_Witness ==
    /\ AtomicReturned /\ InsideBox
    /\ \E i \in Particles, j \in Particles, d \in Dims :
          /\ RawDifference(i, j, d) > HalfBox
          /\ Displacement(i, j, d) # -Displacement(j, i, d)

\* C9 as claimed: the net force on particle i is the negated sum over the
\* second pair index j of force_direction[i][j] * force_magnitude[i][j].
C9_SumOverSecondIndex ==
    ph_pc = "forces" =>
        \A i \in Particles, d \in Dims :
            ph_lj.net_force[i][d] = FNeg(SumOverSecond(i, Len(ph_positions), d))

\* C9 as amended: the net force on particle j is the negated sum over the
\* FIRST pair index i of force_direction[i][j] * force_magnitude[i][j]; where
\* the per-pair forces are antisymmetric the sum over the second index is its
\* negation, so a different result wherever the net force is not zero.
C9_SumOverFirstIndex ==
    ph_pc = "forces" =>
        /\ \A j \in Particles, d \in Dims :
              ph_lj.net_force[j][d] = FNeg(SumOverFirst(Len(ph_positions), j, d))
        /\ (\A i \in Particles, j \in Particles, d \in Dims :
                PairForce(i, j, d) = FNeg(PairForce(j, i, d)))
           => \A j \in Particles, d \in Dims :
                 FNeg(SumOverSecond(j, Len(ph_positions), d)) = FNeg(ph_lj.net_force[j][d])

\* C9's case: two particles, antisymmetric per-pair forces, a net force that
\* is not zero
C9_Witness ==
    /\ ph_pc = "forces"
    /\ Len(ph_positions) >= 2
    /\ \A i \in Particles, j \in Particles, d \in Dims :
          PairForce(i, j, d) = FNeg(PairForce(j, i, d))
    /\ \E j \in Particles, d \in Dims :
          /\ ph_lj.net_force[j][d] # 0
          /\ ph_lj.net_force[j][d] # FNeg(SumOverSecond(j, Len(ph_positions), d))

(***************************************************************************)
(* Properties of simulate() (under Spec).                                  *)
(***************************************************************************)
Result == IF pc = "returned" THEN "Ok" ELSE IF pc = "panicked" THEN "panic" ELSE "none"
Calls == SelectSeq(trace, LAMBDA e : e.call # "write")
Writes == SelectSeq(trace, LAMBDA e : e.call = "write")
StepCalls == SelectSeq(trace, LAMBDA e : e.call = "integration_step")
\* floor(max_time / dt), both positive
FloorCount == args.max_time \div args.time_step_size
Allocated == pc \in {"allocated", "record", "step", "returned"}
SlotWritten(s) == s <= step \/ (pc = "step" /\ s = step + 1)

\* C1: with time_step_size >= max_time simulate() returns an Err to its
\* caller, and before that calls nothing of the integrator and writes no
\* history.
C1_ReturnsConfigurationError ==
    (pc # "call" /\ args.time_step_size >= args.max_time) =>
        /\ Result = "Err"
        /\ trace = <<>>
        /\ positions = <<>> /\ velocities = <<>>

\* C1's case: a call with time_step_size = max_time and matching particle
\* counts has ended
C1_Witness ==
    /\ pc = "panicked"
    /\ args.time_step_size = args.max_time
    /\ Len(args.initial_positions) = Len(args.initial_velocities)

\* C2: a run that returns successfully has called initialisation() once,
\* then only integration_step, then deinit() once.
C2_Lifecycle ==
    pc = "returned" =>
        /\ Len(Calls) >= 2
        /\ Calls[1].call = "initialisation"
        /\ Calls[Len(Calls)].call = "deinit"
        /\ \A k \in 2..(Len(Calls) - 1) : Calls[k].call = "integration_step"

\* C2's case: a run of two particles and at least two steps has returned
C2_Witness ==
    /\ pc = "returned"
    /\ Len(args.initial_positions) >= 2
    /\ Len(StepCalls) >= 2

\* C6: the kinetic energy recorded in a slot is 0.5 times the sum of the
\* squared components of the velocities recorded in that slot.
C6_KineticEnergyOfVelocities ==
    Allocated =>
        \A s \in 1..timesteps :
            SlotWritten(s) =>
                kinetic_energies[s] =
                    FMul(Half, SumSeq([k \in 1..(3 * Len(velocities[s])) |->
                        LET v == velocities[s][((k - 1) \div 3) + 1][((k - 1) % 3) + 1]
                        IN  FMul(v, v)]))

\* C6's case: a run has returned whose recorded positions and velocities
\* differ in every slot
C6_Witness ==
    /\ pc = "returned"
    /\ \A s \in 1..timesteps : positions[s] # velocities[s]

\* C10: the histories have floor(max_time / dt) slots from their allocation
\* on; the slots are written once each, in increasing order; in a run that
\* returned, slot 0 holds the initial fields, slot s+1 what the s-th
\* integration_step returned, as returned, and there were as many
\* integration_step calls as slots, the last one after the last write.
C10_History ==
    /\ Allocated =>
          /\ timesteps = FloorCount
          /\ Len(positions) = timesteps /\ Len(velocities) = timesteps
          /\ Len(kinetic_energies) = timesteps /\ Len(potential_energies) = timesteps
          /\ Len(virials) = timesteps /\ Len(temperatures) = timesteps
          /\ Writes = [k \in 1..Len(Writes) |-> [call |-> "write", slot |-> k - 1]]
          /\ Len(Writes) <= timesteps
    /\ pc = "returned" =>
          /\ Len(Writes) = timesteps
          /\ Len(StepCalls) = timesteps
          /\ trace[Len(trace)].call = "integration_step"
          /\ positions[1] = args.initial_positions
          /\ velocities[1] = args.initial_velocities
          /\ \A s \in 1..(timesteps - 1) :
                /\ positions[s + 1] = StepCalls[s].positions
                /\ velocities[s + 1] = StepCalls[s].velocities

\* C10's case: a run of two interacting particles and at least three steps
\* has returned, and a recorded coordinate lies outside the box
C10_Witness ==
    /\ pc = "returned"
    /\ timesteps >= 3
    /\ Len(args.initial_positions) >= 2
    /\ velocities[timesteps] # velocities[1]
    /\ \E s \in 1..timesteps, i \in 1..Len(args.initial_positions), d \in Dims :
          positions[s][i][d] < 0 \/ positions[s][i][d] >= args.box_dim

(***************************************************************************)
(* Properties of initial_positions and main (under SpecInitialisation).    *)
(***************************************************************************)
IsLatticeCount(n) == \E k \in 0..n : 4 * k * k * k = n

\* C7: initial_positions returns a field of particle_count rows if and only
\* if particle_count = 4 k^3, and otherwise returns an Err to its caller.
C7_ErrUnlessLatticeCount ==
    in_pc = "done" =>
        IF IsLatticeCount(amount_of_particles)
        THEN /\ in_result.outcome = "Ok"
             /\ Len(in_result.positions) = amount_of_particles
        ELSE in_result.outcome = "Err"

\* C7's case: initial_positions was called with a count that is not 4 k^3
C7_Witness ==
    /\ in_pc = "done"
    /\ ~IsLatticeCount(amount_of_particles)
    /\ in_result.outcome # "Ok"

\* C8 as claimed: initial_positions fails on the default 500 particles, and
\* main never reaches simulate().
C8_DefaultCountFails ==
    caller = "main" =>
        /\ in_pc = "done" => in_result.outcome # "Ok"
        /\ main_pc # "simulate"

\* C8 as amended: initial_positions succeeds on the default 500 particles,
\* returning 500 rows (500 = 4 * 5^3), and main does not fail there.
C8_DefaultCountSucceeds ==
    (caller = "main" /\ in_pc = "done") =>
        /\ amount_of_particles = 500
        /\ in_result.outcome = "Ok"
        /\ Len(in_result.positions) = 500
        /\ main_pc # "failed"

\* C8's case: main has called simulate()
C8_Witness == caller = "main" /\ in_pc = "done" /\ main_pc = "simulate"

====
